---- MODULE Spec2Model ----
(***************************************************************************)
(* Authentication core of go-project-structure: Login, RefreshToken,       *)
(* Profile and genToken of internal/auth/service.go, the store reads of    *)
(* sql.go, CanI, ListMyRoles and checkMissingPermissions of the permission *)
(* evaluator, and the decoders of the status type.                         *)
(*                                                                         *)
(* Time is counted in ticks, TicksPerSecond of them to a second, so that   *)
(* the RFC 3339 text the token format stores (whole seconds) is not the    *)
(* clock reading itself.                                                   *)
(***************************************************************************)
EXTENDS Integers, Sequences, FiniteSets, TLC

VARIABLES aKey, rKey, users, now, advances, wallet, res,
          wanted, having, missing, permPc,
          userHasRole, roleHasPermission, seenGranted,
          dec, calls

vars == <<aKey, rKey, users, now, advances, wallet, res,
          wanted, having, missing, permPc,
          userHasRole, roleHasPermission, seenGranted,
          dec, calls>>

authVars == <<aKey, rKey, users, now, advances, wallet, res>>

permVars == <<wanted, having, missing, permPc>>

\* the role tables of the store, and what the client has seen granted
roleVars == <<userHasRole, roleHasPermission, seenGranted>>

----------------------------------------------------------------------------
(* Bounds of the model *)

\* clock resolution: ticks in one second
TicksPerSecond == 2

\* how many times the clock is advanced in one run
MaxAdvances == 2

\* longest permission list handed to checkMissingPermissions
MaxPermLen == 3

\* longest list of permissions a CanI call is given
MaxWanted == 2

\* most digits of an integer handed to a status decoder
MaxDigits == 2

----------------------------------------------------------------------------
(* Program constants *)

StatusUnSpecified == 0

StatusDisabled == 1

StatusTerminated == 2

StatusEnabled == 3

\* time.Hour, in seconds
SecondsPerHour == 3600

Statuses == {StatusUnSpecified, StatusDisabled, StatusTerminated, StatusEnabled}

Hour == SecondsPerHour * TicksPerSecond

RefreshTTL == Hour * 24 * 7

MsgLoginCredentials == "Your credentials not valid. Please check your username and password and try again."

MsgToken == "Your credentials not valid. Please check your token and try again."

MsgValidation == "Credentials are not valid or incomplete. Please check the errors and try again, see details for more information."

MsgStore == "store error"

----------------------------------------------------------------------------
(* Inputs *)

Keys == {"k1", "k2"}

Usernames == {"alice", "bob"}

UsernameInputs == Usernames \cup {""}

PasswordOf(u) == IF u = "alice" THEN "pw-a" ELSE "pw-b"

PasswordInputs == {"", "pw-a", "pw-b"}

IdOf(u) == IF u = "alice" THEN "id-1" ELSE "id-2"

DisplayNameOf(u) == IF u = "alice" THEN "Alice A" ELSE "Bob B"

ClockSteps == {1, TicksPerSecond + 1, RefreshTTL}

Perms == {"x:read", "x:write"}

----------------------------------------------------------------------------
(* bcrypt: the stored hash of a password, and the comparison *)

BcryptHash(password) == <<"bcrypt", password>>

ComparePassword(u, password) == u.hashedPassword = BcryptHash(password)

\* mutant: only the disabled status is turned away
IsEnabled_NotDisabled(u) == u.Status # StatusDisabled

IsEnabled(u) == u.Status = StatusEnabled

\* mutant: the display name is written where the username belongs
toClaims_Swapped(u) == [ID |-> u.ID, Username |-> u.DisplayName, DisplayName |-> u.Username]

toClaims(u) == [ID |-> u.ID, Username |-> u.Username, DisplayName |-> u.DisplayName]

----------------------------------------------------------------------------
(* The store *)

UserRow(u, present, st) ==
    [present |-> present, ID |-> IdOf(u), Username |-> u,
     DisplayName |-> DisplayNameOf(u), Status |-> st,
     hashedPassword |-> BcryptHash(PasswordOf(u))]

NoUser ==
    [present |-> FALSE, ID |-> "", Username |-> "", DisplayName |-> "",
     Status |-> StatusUnSpecified, hashedPassword |-> BcryptHash("")]

\* SELECT ... WHERE username = $1 LIMIT 1; storeFails is a failure of the
\* query other than "no rows"
getUserByUsername(username, storeFails) ==
    IF storeFails
    THEN [err |-> "ErrStore", user |-> NoUser]
    ELSE IF username \in Usernames /\ users[username].present
         THEN [err |-> "nil", user |-> users[username]]
         ELSE [err |-> "ErrUserNotFound", user |-> NoUser]

----------------------------------------------------------------------------
(* Token format: paseto v4.local.  Times are stored as RFC 3339 text, which *)
(* keeps whole seconds only.                                                *)

\* time.Time.Format(time.RFC3339): the whole seconds of a clock reading
FormatRFC3339(t) == t \div TicksPerSecond

\* time.Parse(time.RFC3339, s): the clock reading of a stored time
ParseRFC3339(s) == s * TicksPerSecond

\* json.Marshal of a Claims value, as stored under "profile"
MarshalClaims(c) ==
    [json |-> "object", ID |-> c.ID, Username |-> c.Username, DisplayName |-> c.DisplayName]

\* a "profile" entry that is not a JSON object of strings
MalformedProfile == [json |-> "malformed", ID |-> "", Username |-> "", DisplayName |-> ""]

\* t.Get("profile", claims)
GetProfile(tok) ==
    IF tok.profile.json = "object"
    THEN [err |-> "nil",
          claims |-> [ID |-> tok.profile.ID, Username |-> tok.profile.Username,
                      DisplayName |-> tok.profile.DisplayName]]
    ELSE [err |-> "decode", claims |-> [ID |-> "", Username |-> "", DisplayName |-> ""]]

\* the token string ""
EmptyToken ==
    [kind |-> "empty", key |-> "", sub |-> "", iat |-> 0, nbf |-> 0, exp |-> 0,
     footer |-> 0, profile |-> MalformedProfile]

\* a non-empty string that is no v4.local token
GarbageToken == [EmptyToken EXCEPT !.kind = "garbage"]

\* t.V4Encrypt(key, nil): the claim set t, readable only under key
V4Encrypt(t, key) ==
    [kind |-> "v4.local", key |-> key, sub |-> t.sub, iat |-> t.iat, nbf |-> t.nbf,
     exp |-> t.exp, footer |-> t.footer, profile |-> t.profile]

NoPair == [Access |-> EmptyToken, Refresh |-> EmptyToken]

\* the claim set genToken builds for u at clock reading t (lines 150-159)
NewToken(u, t) ==
    [sub |-> u.Username, iat |-> FormatRFC3339(t), nbf |-> FormatRFC3339(t),
     exp |-> FormatRFC3339(t + Hour), footer |-> FormatRFC3339(t),
     profile |-> MarshalClaims(toClaims(u))]

\* mutant: the refresh token is encrypted under the access key
genToken_AccessKeyTwice(u, t) ==
    [Access  |-> V4Encrypt(NewToken(u, t), aKey),
     Refresh |-> V4Encrypt([NewToken(u, t) EXCEPT !.exp = FormatRFC3339(t + Hour * 24 * 7)],
                           aKey)]

\* mutant: the expiration is not set again before the second encryption
genToken_NoSecondExpiration(u, t) ==
    [Access  |-> V4Encrypt(NewToken(u, t), aKey),
     Refresh |-> V4Encrypt(NewToken(u, t), rKey)]

\* genToken with time.Now() = t
genToken(u, t) ==
    [Access  |-> V4Encrypt(NewToken(u, t), aKey),
     Refresh |-> V4Encrypt([NewToken(u, t) EXCEPT !.exp = FormatRFC3339(t + Hour * 24 * 7)],
                           rKey)]

\* paseto.NotExpired(), evaluated at clock reading t
NotExpired(tok, t) == ~(t > ParseRFC3339(tok.exp))

\* a token that stops being valid one second after it was issued
ValidAt_IssueSecondOnly(tok, t) ==
    /\ ~(t < ParseRFC3339(tok.iat))
    /\ ~(t < ParseRFC3339(tok.nbf))
    /\ ~(t >= ParseRFC3339(tok.iat) + TicksPerSecond)

\* paseto.ValidAt(t)
ValidAt(tok, t) ==
    /\ ~(t < ParseRFC3339(tok.iat))
    /\ ~(t < ParseRFC3339(tok.nbf))
    /\ ~(t > ParseRFC3339(tok.exp))

\* mutant: any key opens any token
Decrypts_AnyKey(key, tok) == tok.kind = "v4.local"

\* v4.local decryption of tok under key
Decrypts(key, tok) == tok.kind = "v4.local" /\ tok.key = key

\* parser.ParseV4Local(key, tok, nil) with the rules NotExpired, ValidAt(t)
ParseV4Local(key, tok, t) ==
    IF ~Decrypts(key, tok) THEN "decrypt"
    ELSE IF ~NotExpired(tok, t) THEN "expired"
    ELSE IF ~ValidAt(tok, t) THEN "notvalid"
    ELSE "nil"

----------------------------------------------------------------------------
(* Responses.  res is the response of the call just made, with its request *)
(* and the source line that returned it; NoRes once it has been delivered.  *)
(* The store and the clock are still those the call read while res stands.  *)

\* the Claims a context without claims yields
NoClaims == [ID |-> "", Username |-> "", DisplayName |-> ""]

\* no failure injected into the store
NoFault == [kind |-> "none", at |-> 0]

\* reads: store queries the call issued; logged: whether it logged an error;
\* claims, wanted, fault: the request of a context-carried call; missed,
\* have, roles, user: what such a call computed or returned
Response(op, code, msg, line) ==
    [op |-> op, code |-> code, msg |-> msg, line |-> line,
     username |-> "", password |-> "", token |-> EmptyToken,
     pair |-> NoPair, violations |-> <<>>,
     storeFailed |-> FALSE, pwCompared |-> FALSE, statusRead |-> -1,
     reads |-> 0, logged |-> FALSE,
     claims |-> NoClaims, wanted |-> <<>>, fault |-> NoFault,
     missed |-> <<>>, have |-> <<>>, roles |-> <<>>, user |-> NoUser]

NoRes == Response("none", "", "", 0)

\* Validate returning at the first empty field
Validate_FirstOnly(username, password) ==
    IF username = "" THEN <<"username">>
    ELSE IF password = "" THEN <<"password">> ELSE <<>>

\* LoginReq.Validate: the field violations, in order
Validate(username, password) ==
    (IF username = "" THEN <<"username">> ELSE <<>>)
        \o (IF password = "" THEN <<"password">> ELSE <<>>)

\* the errors Login returns, by cause
LoginValidationErr == Response("Login", "InvalidArgument", MsgValidation, 68)

\* mutant: the absent principal is reported as not found
LoginNotFoundErr_NotFound == Response("Login", "NotFound", "user not found", 73)

LoginNotFoundErr == Response("Login", "Unauthenticated", MsgLoginCredentials, 73)

LoginStoreErr == Response("Login", "StoreError", MsgStore, 77)

LoginPasswordErr == Response("Login", "Unauthenticated", MsgLoginCredentials, 81)

LoginNotEnabledErr == Response("Login", "Unauthenticated", MsgToken, 84)

\* Auth.Login(in) when time.Now() in genToken reads t
\* a response of a call that has issued its one store query
AfterRead(r) == [r EXCEPT !.reads = 1]

\* Auth.Login(in) from what its one store read returned (r) and from the
\* clock reading of genToken (t)
LoginFrom(username, password, r, t) ==
    LET v == Validate(username, password)
    IN  IF Len(v) > 0 THEN [LoginValidationErr EXCEPT !.violations = v]
        ELSE AfterRead(
             IF r.err = "ErrUserNotFound" THEN LoginNotFoundErr
        ELSE IF r.err # "nil"
             THEN [LoginStoreErr EXCEPT !.storeFailed = TRUE, !.logged = TRUE]
        ELSE IF ~ComparePassword(r.user, password)
             THEN [LoginPasswordErr EXCEPT !.pwCompared = TRUE,
                                           !.statusRead = r.user.Status]
        ELSE IF ~IsEnabled(r.user)
             THEN [LoginNotEnabledErr EXCEPT !.pwCompared = TRUE,
                                             !.statusRead = r.user.Status]
        ELSE [Response("Login", "OK", "", 93) EXCEPT
                  !.pair = genToken(r.user, t),
                  !.pwCompared = TRUE, !.statusRead = r.user.Status])

\* Auth.Login(in) when the store and the clock are read at one instant
LoginBody(username, password, storeFails, t) ==
    LoginFrom(username, password, getUserByUsername(username, storeFails), t)

LoginResult(username, password, storeFails, t) ==
    [LoginBody(username, password, storeFails, t) EXCEPT
         !.username = username, !.password = password]

\* the errors RefreshToken returns, by cause
RefreshEmptyErr == Response("RefreshToken", "Unauthenticated", MsgToken, 107)

RefreshParseErr == Response("RefreshToken", "Unauthenticated", MsgToken, 118)

RefreshClaimsErr == Response("RefreshToken", "Unauthenticated", MsgToken, 123)

\* mutant: the absent principal is reported as not found
RefreshNotFoundErr_NotFound == Response("RefreshToken", "NotFound", "user not found", 128)

RefreshNotFoundErr == Response("RefreshToken", "Unauthenticated", MsgToken, 128)

RefreshStoreErr == Response("RefreshToken", "StoreError", MsgStore, 132)

RefreshNotEnabledErr == Response("RefreshToken", "Unauthenticated", MsgToken, 135)

\* RefreshToken minting from the claims of the presented token in place of
\* the row read
RefreshFrom_CopiesClaims(tok, r, tParse, tMint) ==
    LET p == ParseV4Local(rKey, tok, tParse)
        c == GetProfile(tok)
    IN  IF tok = EmptyToken THEN RefreshEmptyErr
        ELSE IF p # "nil" THEN RefreshParseErr
        ELSE IF c.err # "nil" THEN RefreshClaimsErr
        ELSE AfterRead(
             IF r.err = "ErrUserNotFound" THEN RefreshNotFoundErr
        ELSE IF r.err # "nil"
             THEN [RefreshStoreErr EXCEPT !.storeFailed = TRUE, !.logged = TRUE]
        ELSE IF ~IsEnabled(r.user)
             THEN [RefreshNotEnabledErr EXCEPT !.statusRead = r.user.Status]
        ELSE [Response("RefreshToken", "OK", "", 144) EXCEPT
                  !.pair = genToken([r.user EXCEPT
                                         !.ID = c.claims.ID,
                                         !.DisplayName = c.claims.DisplayName],
                                    tMint),
                  !.statusRead = r.user.Status])

\* Auth.RefreshToken(in) from the clock reading of the parser's rules
\* (tParse), from what its one store read returned (r) and from the clock
\* reading of genToken (tMint)
RefreshFrom(tok, r, tParse, tMint) ==
    LET p == ParseV4Local(rKey, tok, tParse)
        c == GetProfile(tok)
    IN  IF tok = EmptyToken THEN RefreshEmptyErr
        ELSE IF p # "nil" THEN RefreshParseErr
        ELSE IF c.err # "nil" THEN RefreshClaimsErr
        ELSE AfterRead(
             IF r.err = "ErrUserNotFound" THEN RefreshNotFoundErr
        ELSE IF r.err # "nil"
             THEN [RefreshStoreErr EXCEPT !.storeFailed = TRUE, !.logged = TRUE]
        ELSE IF ~IsEnabled(r.user)
             THEN [RefreshNotEnabledErr EXCEPT !.statusRead = r.user.Status]
        ELSE [Response("RefreshToken", "OK", "", 144) EXCEPT
                  !.pair = genToken(r.user, tMint),
                  !.statusRead = r.user.Status])

\* Auth.RefreshToken(in) when the clock reads t throughout the call
RefreshBody(tok, storeFails, t) ==
    RefreshFrom(tok,
                getUserByUsername(GetProfile(tok).claims.Username, storeFails),
                t, t)

RefreshTokenResult(tok, storeFails, t) ==
    [RefreshBody(tok, storeFails, t) EXCEPT !.token = tok]

----------------------------------------------------------------------------
(* checkMissingPermissions *)

\* the first loop: havingSet[p] = struct{}{} for each p of having
RECURSIVE BuildHavingSet(_, _)
BuildHavingSet(hs, set) ==
    IF hs = <<>> THEN set ELSE BuildHavingSet(Tail(hs), set \cup {Head(hs)})

\* the second loop: append each p of wanted that havingSet does not hold
RECURSIVE AppendMissing(_, _, _)
AppendMissing(ws, havingSet, acc) ==
    IF ws = <<>> THEN acc
    ELSE AppendMissing(Tail(ws), havingSet,
                       IF Head(ws) \in havingSet THEN acc ELSE Append(acc, Head(ws)))

\* mutant: the two lists change places
checkMissingPermissions_Swapped(ws, hs) == AppendMissing(hs, BuildHavingSet(ws, {}), <<>>)

checkMissingPermissions(ws, hs) == AppendMissing(ws, BuildHavingSet(hs, {}), <<>>)

PermLists == UNION {[1..n -> Perms] : n \in 0..MaxPermLen}

----------------------------------------------------------------------------
(* Roles.  userHasRole and roleHasPermission are the rows of tables         *)
(* user_has_role and role_has_permission; every role of RoleNames has a row *)
(* in table role.                                                           *)

RoleNames == {"admin", "editor"}

RoleIdOf(r) == IF r = "admin" THEN "role-1" ELSE "role-2"

RoleDisplayNameOf(r) == IF r = "admin" THEN "Administrator" ELSE "Editor"

\* the query has no ORDER BY: rows and aggregated arrays come in an order
\* the store chooses
Orders == {"fwd", "rev"}

RoleOrder == <<"admin", "editor">>

PermOrder == <<"x:read", "x:write">>

Reverse(s) == [i \in 1..Len(s) |-> s[Len(s) + 1 - i]]

\* the members of S in the order, or the reverse order, of base
InOrder(base, S, order) ==
    SelectSeq(IF order = "fwd" THEN base ELSE Reverse(base), LAMBDA x : x \in S)

\* ARRAY_AGG(rh.permission_name) of the group of role r
ArrayAgg(r, order) ==
    InOrder(PermOrder, {p \in Perms : <<r, p>> \in roleHasPermission}, order)

\* r.id, r.name, r.display_name, ARRAY_AGG(rh.permission_name) scanned
\* into a Role
Role(r, arrOrder) ==
    [ID |-> RoleIdOf(r), Name |-> r, DisplayName |-> RoleDisplayNameOf(r),
     Permissions |-> ArrayAgg(r, arrOrder)]

\* the query without its WHERE ur.username = $1
JoinedRoles_AnyUser(username) ==
    {r \in RoleNames : /\ \E u \in Usernames : <<u, r>> \in userHasRole
                       /\ \E p \in Perms : <<r, p>> \in roleHasPermission}

\* the groups of the query: the inner join with role_has_permission keeps
\* a role of the user only when it has a permission row
JoinedRoles(username) ==
    {r \in RoleNames : /\ <<username, r>> \in userHasRole
                       /\ \E p \in Perms : <<r, p>> \in roleHasPermission}

QueryRows(username, rowOrder, arrOrder) ==
    LET names == InOrder(RoleOrder, JoinedRoles(username), rowOrder)
    IN  [i \in 1..Len(names) |-> Role(names[i], arrOrder)]

\* where a store failure or a cancellation strikes: db.Query fails
\* ("query"), rows.Scan of row number at fails ("scan"), or rows.Next ends
\* the iteration after at rows with rows.Err set ("rows")
Faults ==
    {NoFault, [kind |-> "query", at |-> 0]}
        \cup {[kind |-> "scan", at |-> k] : k \in 1..Cardinality(RoleNames)}
        \cup {[kind |-> "rows", at |-> k] : k \in 0..Cardinality(RoleNames)}

MsgQuery == "failed to execute query: store error"

MsgScan == "failed to scan row: store error"

MsgRows == "failed to iterate rows: store error"

\* the loop without the rows.Err check after it
RECURSIVE ScanRows_NoRowsErr(_, _, _, _)
ScanRows_NoRowsErr(rows, i, fault, rs) ==
    IF fault.kind = "rows" /\ fault.at = i - 1 THEN [err |-> "nil", roles |-> rs]
    ELSE IF i > Len(rows) THEN [err |-> "nil", roles |-> rs]
    ELSE IF fault.kind = "scan" /\ fault.at = i
         THEN [err |-> MsgScan, roles |-> <<>>]
    ELSE ScanRows_NoRowsErr(rows, i + 1, fault, Append(rs, rows[i]))

\* for rows.Next() { rows.Scan(...); rs = append(rs, r) }, then rows.Err():
\* i is the row rows.Next would deliver, rs the roles appended so far
RECURSIVE ScanRows(_, _, _, _)
ScanRows(rows, i, fault, rs) ==
    IF fault.kind = "rows" /\ fault.at = i - 1
    THEN [err |-> MsgRows, roles |-> <<>>]
    ELSE IF i > Len(rows) THEN [err |-> "nil", roles |-> rs]
    ELSE IF fault.kind = "scan" /\ fault.at = i
         THEN [err |-> MsgScan, roles |-> <<>>]
    ELSE ScanRows(rows, i + 1, fault, Append(rs, rows[i]))

\* a query without rows reported as an error, as getUserByUsername does
listRolesByUsername_NoRowsIsError(username, rowOrder, arrOrder, fault) ==
    IF fault.kind = "query"
    THEN [err |-> MsgQuery, roles |-> <<>>]
    ELSE IF QueryRows(username, rowOrder, arrOrder) = <<>>
         THEN [err |-> "no rows in result set", roles |-> <<>>]
    ELSE ScanRows(QueryRows(username, rowOrder, arrOrder), 1, fault, <<>>)

listRolesByUsername(username, rowOrder, arrOrder, fault) ==
    IF fault.kind = "query"
    THEN [err |-> MsgQuery, roles |-> <<>>]
    ELSE ScanRows(QueryRows(username, rowOrder, arrOrder), 1, fault, <<>>)

\* ps = r.Permissions in place of ps = append(ps, r.Permissions...)
roleToPermissions_LastRoleOnly(rs) ==
    IF rs = <<>> THEN <<>> ELSE rs[Len(rs)].Permissions

\* the first occurrences of the entries of s, after those of acc
RECURSIVE Deduplicate(_, _)
Deduplicate(s, acc) ==
    IF s = <<>> THEN acc
    ELSE Deduplicate(Tail(s),
                     IF \E i \in 1..Len(acc) : acc[i] = s[1]
                     THEN acc ELSE Append(acc, s[1]))

\* the permissions of the roles with repeated names dropped
RECURSIVE roleToPermissions_Deduplicated(_)
roleToPermissions_Deduplicated(rs) ==
    IF rs = <<>> THEN <<>>
    ELSE Deduplicate(rs[1].Permissions \o roleToPermissions_Deduplicated(Tail(rs)),
                     <<>>)

\* ps = append(ps, r.Permissions...) for each r of rs, in order
RECURSIVE roleToPermissions(_)
roleToPermissions(rs) ==
    IF rs = <<>> THEN <<>>
    ELSE rs[1].Permissions \o roleToPermissions(Tail(rs))

----------------------------------------------------------------------------
(* The calls that take the principal from the request context *)

\* what ClaimsFromContext finds: nothing, or the claims of a token
ClaimsInputs ==
    {NoClaims} \cup {toClaims(UserRow(u, TRUE, StatusEnabled)) : u \in Usernames}

WantedLists == UNION {[1..n -> Perms] : n \in 0..MaxWanted}

MsgNoPermissions == "no permissions specified"

MsgPermissions ==
    "You do not have sufficient permissions. Required %v to perform this action"

MsgNotAllowed ==
    "You are not allowed to access this resource or (it may not exist)"

\* errors.New: an error that carries no status code
CanIEmptyErr == Response("CanI", "PlainError", MsgNoPermissions, 360)

\* the error of listRolesByUsername, returned as it is
CanIStoreErr(err) == Response("CanI", "StoreError", err, 366)

\* missed fills the %v of the message
CanIDeniedErr == Response("CanI", "PermissionDenied", MsgPermissions, 371)

\* Auth.CanI from what its role lookup returned (l)
CanIFrom(permissions, l) ==
    LET have == roleToPermissions(l.roles)
        missed == checkMissingPermissions(permissions, have)
    IN  IF Len(permissions) = 0 THEN CanIEmptyErr
        ELSE AfterRead(
             IF l.err # "nil"
             THEN [CanIStoreErr(l.err) EXCEPT !.storeFailed = TRUE]
        ELSE IF Len(missed) > 0
             THEN [CanIDeniedErr EXCEPT !.missed = missed, !.have = have]
        ELSE [Response("CanI", "OK", "", 377) EXCEPT !.have = have])

CanIBody(claims, permissions, rowOrder, arrOrder, fault) ==
    CanIFrom(permissions,
             listRolesByUsername(claims.Username, rowOrder, arrOrder, fault))

CanIResult(claims, permissions, rowOrder, arrOrder, fault) ==
    [CanIBody(claims, permissions, rowOrder, arrOrder, fault) EXCEPT
         !.claims = claims, !.wanted = permissions, !.fault = fault]

ListMyRolesStoreErr(err) == Response("ListMyRoles", "StoreError", err, 351)

\* Auth.ListMyRoles from what its role lookup returned (l)
ListMyRolesFrom(l) ==
    AfterRead(
        IF l.err # "nil"
        THEN [ListMyRolesStoreErr(l.err) EXCEPT !.storeFailed = TRUE,
                                                !.logged = TRUE]
        ELSE [Response("ListMyRoles", "OK", "", 354) EXCEPT !.roles = l.roles])

ListMyRolesBody(claims, rowOrder, arrOrder, fault) ==
    ListMyRolesFrom(listRolesByUsername(claims.Username, rowOrder, arrOrder, fault))

ListMyRolesResult(claims, rowOrder, arrOrder, fault) ==
    [ListMyRolesBody(claims, rowOrder, arrOrder, fault) EXCEPT
         !.claims = claims, !.fault = fault]

ProfileNotFoundErr == Response("Profile", "PermissionDenied", MsgNotAllowed, 51)

ProfileStoreErr == Response("Profile", "StoreError", MsgStore, 55)

\* Profile refusing a principal that is not enabled
ProfileFrom_EnabledOnly(r) ==
    AfterRead(
        IF r.err = "ErrUserNotFound" THEN ProfileNotFoundErr
        ELSE IF r.err # "nil"
             THEN [ProfileStoreErr EXCEPT !.storeFailed = TRUE, !.logged = TRUE]
        ELSE IF ~IsEnabled(r.user) THEN ProfileNotFoundErr
        ELSE [Response("Profile", "OK", "", 58) EXCEPT !.user = r.user])

\* Auth.Profile from what its store read returned (r)
ProfileFrom(r) ==
    AfterRead(
        IF r.err = "ErrUserNotFound" THEN ProfileNotFoundErr
        ELSE IF r.err # "nil"
             THEN [ProfileStoreErr EXCEPT !.storeFailed = TRUE, !.logged = TRUE]
        ELSE [Response("Profile", "OK", "", 58) EXCEPT !.user = r.user])

ProfileBody(claims, storeFails) ==
    ProfileFrom(getUserByUsername(claims.Username, storeFails))

ProfileResult(claims, storeFails) ==
    [ProfileBody(claims, storeFails) EXCEPT
         !.claims = claims,
         !.fault = IF storeFails THEN [kind |-> "query", at |-> 0] ELSE NoFault]

----------------------------------------------------------------------------
(* What a client can send as the refresh request's token *)

\* tokens under the refresh key that genToken did not mint: one whose
\* not-before lies ahead of the clock, one whose "profile" does not decode
NotYetValidToken(t) ==
    V4Encrypt([NewToken(UserRow("alice", TRUE, StatusEnabled), t + TicksPerSecond)
                   EXCEPT !.exp = FormatRFC3339(t + Hour * 24 * 7)], rKey)

NoProfileToken(t) ==
    V4Encrypt([NewToken(UserRow("alice", TRUE, StatusEnabled), t)
                   EXCEPT !.profile = MalformedProfile], rKey)

TokenInputs ==
    {w.token : w \in wallet} \cup {EmptyToken, GarbageToken, NotYetValidToken(now), NoProfileToken(now)}

----------------------------------------------------------------------------
(* Decoding of a status.  A byte string is the sequence of its characters.  *)

NameUnspecified == <<"U", "N", "S", "P", "E", "C", "I", "F", "I", "E", "D">>

NameEnabled == <<"E", "N", "A", "B", "L", "E", "D">>

NameDisabled == <<"D", "I", "S", "A", "B", "L", "E", "D">>

NameTerminated == <<"T", "E", "R", "M", "I", "N", "A", "T", "E", "D">>

\* the keys of statusValues
StatusNames == {NameUnspecified, NameEnabled, NameDisabled, NameTerminated}

\* statusValues[name], for a key of the map
statusValues(name) ==
    IF name = NameUnspecified THEN StatusUnSpecified
    ELSE IF name = NameEnabled THEN StatusEnabled
    ELSE IF name = NameDisabled THEN StatusDisabled
    ELSE StatusTerminated

Digits == <<"0", "1", "2", "3", "4", "5", "6", "7", "8", "9">>

IsDigit(c) == \E i \in 1..Len(Digits) : Digits[i] = c

DigitValue(c) == (CHOOSE i \in 1..Len(Digits) : Digits[i] = c) - 1

\* the number a string of decimal digits denotes, after the value acc
RECURSIVE DecimalValue(_, _)
DecimalValue(cs, acc) ==
    IF cs = <<>> THEN acc
    ELSE DecimalValue(Tail(cs), acc * Len(Digits) + DigitValue(cs[1]))

\* strconv.Atoi: an optional sign and at least one decimal digit; the
\* strings of the model are far shorter than the range of int
Atoi(cs) ==
    LET signed == cs # <<>> /\ cs[1] \in {"+", "-"}
        ds == IF signed THEN Tail(cs) ELSE cs
    IN  IF ds = <<>> \/ \E i \in 1..Len(ds) : ~IsDigit(ds[i])
        THEN [err |-> "invalid syntax", v |-> 0]
        ELSE [err |-> "nil",
              v |-> IF signed /\ cs[1] = "-" THEN 0 - DecimalValue(ds, 0)
                    ELSE DecimalValue(ds, 0)]

JSONNull == <<"n", "u", "l", "l">>

\* (*status).UnmarshalJSON(b) on a status of value s: the error and the
\* value afterwards.  b[1 : len(b)-1] panics when b has fewer than two bytes
UnmarshalJSON(s, b) ==
    IF b = JSONNull THEN [err |-> "nil", s |-> s]
    ELSE IF Len(b) < 2 THEN [err |-> "panic", s |-> s]
    ELSE LET name == SubSeq(b, 2, Len(b) - 1)
         IN  IF name \in StatusNames
             THEN [err |-> "nil", s |-> statusValues(name)]
             ELSE IF Atoi(name).err = "nil"
                  THEN [err |-> "nil", s |-> Atoi(name).v]
             ELSE [err |-> "invalid status", s |-> s]

\* (*status).Scan(src) on a status of value s; src is nil, a string, a
\* []byte or a value of another type
Scan(s, src) ==
    IF src.type = "nil" THEN [err |-> "nil", s |-> s]
    ELSE IF src.type \in {"string", "bytes"} /\ src.text \in StatusNames
         THEN [err |-> "nil", s |-> statusValues(src.text)]
    ELSE [err |-> "invalid status", s |-> s]

\* digits the inputs are written with
DigitInputs == {"0", "3", "9"}

DigitStrings == UNION {[1..n -> DigitInputs] : n \in 1..MaxDigits}

\* what stands between the quotes, or in a column: the four names, other
\* names, and integers
TextInputs ==
    StatusNames
        \cup {<<>>, <<"B", "O", "G", "U", "S">>,
              <<"e", "n", "a", "b", "l", "e", "d">>, <<"-", "1">>}
        \cup DigitStrings

Quoted(cs) == <<"\"">> \o cs \o <<"\"">>

\* the JSON values a decoder hands to UnmarshalJSON: null, strings, numbers
JSONInputs == {JSONNull} \cup {Quoted(cs) : cs \in TextInputs} \cup DigitStrings

ScanInputs ==
    {[type |-> "nil", text |-> <<>>], [type |-> "int64", text |-> <<"3">>]}
        \cup {[type |-> ty, text |-> cs] : ty \in {"string", "bytes"}, cs \in TextInputs}

\* no decoding under way
NoDecode == [pc |-> "idle", op |-> "none", s |-> StatusUnSpecified,
             json |-> <<>>, src |-> [type |-> "nil", text |-> <<>>],
             err |-> "", out |-> StatusUnSpecified]

----------------------------------------------------------------------------
(* Concurrent calls on one Auth.  A call is a goroutine with its own        *)
(* locals: its request, the clock reading of the parser's rules, what its   *)
(* store read returned, and its result.                                     *)

Callers == {"c1", "c2"}

IdleCall ==
    [pc |-> "idle", op |-> "none", username |-> "", password |-> "",
     token |-> EmptyToken, claims |-> NoClaims, wanted |-> <<>>,
     tParse |-> 0, row |-> [err |-> "nil", user |-> NoUser],
     lookup |-> [err |-> "nil", roles |-> <<>>], tMint |-> 0,
     result |-> NoRes]

NoCalls == [c \in Callers |-> IdleCall]

\* the claims and the refresh token of alice, minted when the clock read 0
AliceClaims == toClaims(UserRow("alice", TRUE, StatusEnabled))

AliceRefreshToken == genToken(UserRow("alice", TRUE, StatusEnabled), 0).Refresh

\* the requests of the concurrent callers, one or two of each operation
ConcRequests ==
    {[IdleCall EXCEPT !.op = "Login", !.username = "alice", !.password = pw] :
         pw \in {"pw-a", "pw-b"}}
        \cup {[IdleCall EXCEPT !.op = "RefreshToken", !.token = AliceRefreshToken],
              [IdleCall EXCEPT !.op = "Profile", !.claims = AliceClaims],
              [IdleCall EXCEPT !.op = "CanI", !.claims = AliceClaims,
                               !.wanted = <<"x:read">>],
              [IdleCall EXCEPT !.op = "ListMyRoles", !.claims = AliceClaims]}

\* the call reaches its store read: no earlier return is taken
NeedsRead(call) ==
    IF call.op = "Login" THEN Validate(call.username, call.password) = <<>>
    ELSE IF call.op = "RefreshToken"
         THEN /\ call.token # EmptyToken
              /\ ParseV4Local(rKey, call.token, call.tParse) = "nil"
              /\ GetProfile(call.token).err = "nil"
    ELSE IF call.op = "CanI" THEN call.wanted # <<>>
    ELSE TRUE

\* the username the store read of the call is made with
UsernameRead(call) ==
    IF call.op = "Login" THEN call.username
    ELSE IF call.op = "RefreshToken" THEN GetProfile(call.token).claims.Username
    ELSE call.claims.Username

\* what the call returns, from its request and from what it read: row r or
\* lookup l from the store, t from the clock of genToken
ResultFrom(call, r, l, t) ==
    IF call.op = "Login"
    THEN [LoginFrom(call.username, call.password, r, t) EXCEPT
              !.username = call.username, !.password = call.password]
    ELSE IF call.op = "RefreshToken"
         THEN [RefreshFrom(call.token, r, call.tParse, t) EXCEPT
                   !.token = call.token]
    ELSE IF call.op = "Profile"
         THEN [ProfileFrom(r) EXCEPT !.claims = call.claims]
    ELSE IF call.op = "CanI"
         THEN [CanIFrom(call.wanted, l) EXCEPT
                   !.claims = call.claims, !.wanted = call.wanted]
    ELSE [ListMyRolesFrom(l) EXCEPT !.claims = call.claims]

\* the row in a place all calls share: what another call has read
RowUsed_Shared(c) == calls[CHOOSE d \in Callers : d # c].row

\* user, the local variable of the handler that holds the row it read
RowUsed(c) == calls[c].row

\* roles, the local variable of the handler that holds the lookup it made
LookupUsed(c) == calls[c].lookup

----------------------------------------------------------------------------
(* State machine of the service and its surroundings *)

\* auth.New(ctx, db, zlog, aKey, rKey), with the same key twice or with two
\* keys (which key is called k1 makes no difference); the store holds alice,
\* enabled
Init ==
    /\ aKey = "k1"
    /\ rKey \in Keys
    /\ users = [u \in Usernames |->
                   IF u = "alice" THEN UserRow(u, TRUE, StatusEnabled)
                   ELSE UserRow(u, FALSE, StatusUnSpecified)]
    /\ now = 0
    /\ advances = 0
    /\ wallet = {}
    /\ res = NoRes
    /\ wanted = <<>>
    /\ having = <<>>
    /\ missing = <<>>
    /\ permPc = "idle"
    /\ userHasRole = {}
    /\ roleHasPermission = {}
    /\ seenGranted = {}
    /\ dec = NoDecode
    /\ calls = NoCalls

Login ==
    /\ res = NoRes
    /\ \E username \in UsernameInputs, password \in PasswordInputs, storeFails \in BOOLEAN :
           res' = LoginResult(username, password, storeFails, now)
    /\ UNCHANGED <<aKey, rKey, users, now, advances, wallet, permVars, roleVars, dec, calls>>

RefreshToken ==
    /\ res = NoRes
    /\ \E tok \in TokenInputs, storeFails \in BOOLEAN :
           res' = RefreshTokenResult(tok, storeFails, now)
    /\ UNCHANGED <<aKey, rKey, users, now, advances, wallet, permVars, roleVars, dec, calls>>

\* the response reaches the client, which keeps nothing of it but notes
\* that the token it holds was accepted
Deliver ==
    /\ res # NoRes
    /\ res' = NoRes
    /\ wallet' = {IF res.op = "RefreshToken" /\ res.code = "OK"
                     /\ res.token = w.token
                  THEN [w EXCEPT !.used = TRUE] ELSE w : w \in wallet}
    /\ UNCHANGED <<aKey, rKey, users, now, advances, permVars, roleVars, dec, calls>>

\* the response reaches the client, which keeps one token of the pair in
\* place of the token it held
KeepToken ==
    /\ res.code = "OK"
    /\ \/ wallet' = {[role |-> "Access", by |-> res.op, used |-> FALSE,
                      token |-> res.pair.Access]}
       \/ wallet' = {[role |-> "Refresh", by |-> res.op, used |-> FALSE,
                      token |-> res.pair.Refresh]}
    /\ res' = NoRes
    /\ UNCHANGED <<aKey, rKey, users, now, advances, permVars, roleVars, dec, calls>>

\* time passes
Tick ==
    /\ res = NoRes
    /\ advances < MaxAdvances
    /\ \E d \in ClockSteps : now' = now + d
    /\ advances' = advances + 1
    /\ UNCHANGED <<aKey, rKey, users, wallet, res, permVars, roleVars, dec, calls>>

\* the provisioning path creates, removes or changes the status of a principal
UpdateUser ==
    /\ res = NoRes
    /\ \E u \in Usernames :
           \/ \E st \in Statuses : users' = [users EXCEPT ![u] = UserRow(u, TRUE, st)]
           \/ users' = [users EXCEPT ![u] = UserRow(u, FALSE, StatusUnSpecified)]
    /\ UNCHANGED <<aKey, rKey, now, advances, wallet, res, permVars, roleVars, dec, calls>>

Next == Login \/ RefreshToken \/ Deliver \/ KeepToken \/ Tick \/ UpdateUser

Spec == Init /\ [][Next]_vars

----------------------------------------------------------------------------
(* The service over a store in which the id and the display name of a       *)
(* principal change                                                         *)

\* the provisioning path changes the id or the display name of a principal
UpdateProfile ==
    /\ res = NoRes
    /\ \E u \in Usernames :
           /\ users[u].present
           /\ \E i \in {IdOf(u), "id-new"}, d \in {DisplayNameOf(u), "New Name"} :
                  users' = [users EXCEPT ![u] = [@ EXCEPT !.ID = i,
                                                          !.DisplayName = d]]
    /\ UNCHANGED <<aKey, rKey, now, advances, wallet, res, permVars, roleVars, dec, calls>>

NextProfile == Login \/ RefreshToken \/ Deliver \/ KeepToken \/ Tick \/ UpdateProfile

SpecProfile == Init /\ [][NextProfile]_vars

----------------------------------------------------------------------------
(* checkMissingPermissions on bounded inputs *)

InitPerm ==
    /\ aKey = "k1"
    /\ rKey = "k2"
    /\ users = [u \in Usernames |-> UserRow(u, FALSE, StatusUnSpecified)]
    /\ now = 0
    /\ advances = 0
    /\ wallet = {}
    /\ res = NoRes
    /\ wanted \in PermLists
    /\ having \in PermLists
    /\ missing = <<>>
    /\ permPc = "call"
    /\ userHasRole = {}
    /\ roleHasPermission = {}
    /\ seenGranted = {}
    /\ dec = NoDecode
    /\ calls = NoCalls

CheckMissing ==
    /\ permPc = "call"
    /\ missing' = checkMissingPermissions(wanted, having)
    /\ permPc' = "done"
    /\ UNCHANGED <<wanted, having, authVars, roleVars, dec, calls>>

NextPerm == CheckMissing

SpecPerm == InitPerm /\ [][NextPerm]_vars

----------------------------------------------------------------------------
(* State machine of the calls that take the principal from the context,     *)
(* over a store whose role tables change between calls                      *)

InitCtx ==
    /\ aKey = "k1"
    /\ rKey = "k2"
    /\ users = [u \in Usernames |->
                   UserRow(u, u = "alice", StatusEnabled)]
    /\ now = 0
    /\ advances = 0
    /\ wallet = {}
    /\ res = NoRes
    /\ wanted = <<>>
    /\ having = <<>>
    /\ missing = <<>>
    /\ permPc = "idle"
    /\ userHasRole = {}
    /\ roleHasPermission = {}
    /\ seenGranted = {}
    /\ dec = NoDecode
    /\ calls = NoCalls

ctxVars == <<aKey, rKey, users, now, advances, wallet, permVars>>

CanI ==
    /\ res = NoRes
    /\ \E claims \in ClaimsInputs, permissions \in WantedLists,
          rowOrder \in Orders, arrOrder \in Orders, fault \in Faults :
           res' = CanIResult(claims, permissions, rowOrder, arrOrder, fault)
    /\ UNCHANGED <<ctxVars, roleVars, dec, calls>>

ListMyRoles ==
    /\ res = NoRes
    /\ \E claims \in ClaimsInputs, rowOrder \in Orders, arrOrder \in Orders,
          fault \in Faults :
           res' = ListMyRolesResult(claims, rowOrder, arrOrder, fault)
    /\ UNCHANGED <<ctxVars, roleVars, dec, calls>>

Profile ==
    /\ res = NoRes
    /\ \E claims \in ClaimsInputs, storeFails \in BOOLEAN :
           res' = ProfileResult(claims, storeFails)
    /\ UNCHANGED <<ctxVars, roleVars, dec, calls>>

\* the principal whose caller's memory seenGranted follows
Caller == "alice"

\* the caller takes the response; the caller that acts for Caller
\* remembers each permission a CanI granted it
DeliverCtx ==
    /\ res # NoRes
    /\ res' = NoRes
    /\ seenGranted' =
           IF res.op = "CanI" /\ res.code = "OK" /\ res.claims.Username = Caller
           THEN seenGranted \cup {res.wanted[i] : i \in 1..Len(res.wanted)}
           ELSE seenGranted
    /\ UNCHANGED <<ctxVars, userHasRole, roleHasPermission, dec, calls>>

\* a role is assigned to or taken from a user, or a permission is granted
\* to or taken from a role, by whoever administers the store
UpdateRoles ==
    /\ res = NoRes
    /\ \/ \E u \in Usernames, r \in RoleNames :
              /\ userHasRole' = IF <<u, r>> \in userHasRole
                                THEN userHasRole \ {<<u, r>>}
                                ELSE userHasRole \cup {<<u, r>>}
              /\ UNCHANGED roleHasPermission
       \/ \E r \in RoleNames, p \in Perms :
              /\ roleHasPermission' = IF <<r, p>> \in roleHasPermission
                                      THEN roleHasPermission \ {<<r, p>>}
                                      ELSE roleHasPermission \cup {<<r, p>>}
              /\ UNCHANGED userHasRole
    /\ UNCHANGED <<ctxVars, res, seenGranted, dec, calls>>

NextCtx == CanI \/ ListMyRoles \/ Profile \/ DeliverCtx \/ UpdateRoles

SpecCtx == InitCtx /\ [][NextCtx]_vars

----------------------------------------------------------------------------
(* Decoding of a status on bounded inputs *)

InitDecode ==
    /\ aKey = "k1"
    /\ rKey = "k2"
    /\ users = [u \in Usernames |-> UserRow(u, FALSE, StatusUnSpecified)]
    /\ now = 0
    /\ advances = 0
    /\ wallet = {}
    /\ res = NoRes
    /\ wanted = <<>>
    /\ having = <<>>
    /\ missing = <<>>
    /\ permPc = "idle"
    /\ userHasRole = {}
    /\ roleHasPermission = {}
    /\ seenGranted = {}
    /\ calls = NoCalls
    /\ \E s \in Statuses :
           \/ \E b \in JSONInputs :
                  dec = [NoDecode EXCEPT !.pc = "call", !.op = "UnmarshalJSON",
                                         !.s = s, !.out = s, !.json = b]
           \/ \E src \in ScanInputs :
                  dec = [NoDecode EXCEPT !.pc = "call", !.op = "Scan",
                                         !.s = s, !.out = s, !.src = src]

DecodeJSON ==
    /\ dec.pc = "call"
    /\ dec.op = "UnmarshalJSON"
    /\ dec' = [dec EXCEPT !.pc = "done",
                          !.err = UnmarshalJSON(dec.s, dec.json).err,
                          !.out = UnmarshalJSON(dec.s, dec.json).s]
    /\ UNCHANGED <<authVars, permVars, roleVars, calls>>

DecodeColumn ==
    /\ dec.pc = "call"
    /\ dec.op = "Scan"
    /\ dec' = [dec EXCEPT !.pc = "done",
                          !.err = Scan(dec.s, dec.src).err,
                          !.out = Scan(dec.s, dec.src).s]
    /\ UNCHANGED <<authVars, permVars, roleVars, calls>>

NextDecode == DecodeJSON \/ DecodeColumn

SpecDecode == InitDecode /\ [][NextDecode]_vars

----------------------------------------------------------------------------
(* The calls that take the principal from the context, over a store whose   *)
(* role and permission rows stay as they are while the status of a          *)
(* principal changes                                                        *)

\* alice has role admin, which grants x:read only
InitCtxStatus ==
    /\ aKey = "k1"
    /\ rKey = "k2"
    /\ users = [u \in Usernames |->
                   UserRow(u, u = "alice", StatusEnabled)]
    /\ now = 0
    /\ advances = 0
    /\ wallet = {}
    /\ res = NoRes
    /\ wanted = <<>>
    /\ having = <<>>
    /\ missing = <<>>
    /\ permPc = "idle"
    /\ userHasRole = {<<"alice", "admin">>, <<"bob", "editor">>}
    /\ roleHasPermission =
           {<<"admin", "x:read">>, <<"editor", "x:read">>, <<"editor", "x:write">>}
    /\ seenGranted = {}
    /\ dec = NoDecode
    /\ calls = NoCalls

\* the provisioning path changes the status of a principal
UpdateStatus ==
    /\ res = NoRes
    /\ \E u \in Usernames, st \in Statuses :
           /\ users[u].present
           /\ users' = [users EXCEPT ![u] = [@ EXCEPT !.Status = st]]
    /\ UNCHANGED <<aKey, rKey, now, advances, wallet, res, permVars, roleVars, dec, calls>>

NextCtxStatus == CanI \/ ListMyRoles \/ Profile \/ DeliverCtx \/ UpdateStatus

SpecCtxStatus == InitCtxStatus /\ [][NextCtxStatus]_vars

----------------------------------------------------------------------------
(* State machine of two concurrent callers, with a store and a clock that   *)
(* change between the steps of a call                                       *)

InitConc ==
    /\ aKey = "k1"
    /\ rKey = "k2"
    /\ users = [u \in Usernames |-> UserRow(u, u = "alice", StatusEnabled)]
    /\ now = 0
    /\ advances = 0
    /\ wallet = {}
    /\ res = NoRes
    /\ wanted = <<>>
    /\ having = <<>>
    /\ missing = <<>>
    /\ permPc = "idle"
    /\ userHasRole = {}
    /\ roleHasPermission = {<<"admin", "x:read">>}
    /\ seenGranted = {}
    /\ dec = NoDecode
    /\ calls = NoCalls

\* what no step of a call assigns
AuthAndStore == <<aKey, rKey, users, userHasRole, roleHasPermission>>

concRest == <<now, advances, wallet, res, permVars, seenGranted, dec>>

\* a handler is entered; RefreshToken builds its parser rules from the clock
Begin(c) ==
    /\ calls[c].pc = "idle"
    /\ \E q \in ConcRequests :
           calls' = [calls EXCEPT ![c] =
                        [q EXCEPT !.pc = "read",
                                  !.tParse = IF q.op = "RefreshToken"
                                             THEN now ELSE 0]]
    /\ UNCHANGED <<AuthAndStore, concRest>>

\* getUserByUsername or listRolesByUsername of the call
ReadStore(c) ==
    /\ calls[c].pc = "read"
    /\ NeedsRead(calls[c])
    /\ calls' = [calls EXCEPT ![c] =
                    IF calls[c].op \in {"CanI", "ListMyRoles"}
                    THEN [calls[c] EXCEPT
                              !.pc = "mint",
                              !.lookup = listRolesByUsername(
                                             UsernameRead(calls[c]),
                                             "fwd", "fwd", NoFault)]
                    ELSE [calls[c] EXCEPT
                              !.pc = "mint",
                              !.row = getUserByUsername(UsernameRead(calls[c]),
                                                        FALSE)]]
    /\ UNCHANGED <<AuthAndStore, concRest>>

\* the rest of the handler: the decision, genToken with the clock as it
\* reads now, and the return
Return(c) ==
    /\ \/ calls[c].pc = "mint"
       \/ calls[c].pc = "read" /\ ~NeedsRead(calls[c])
    /\ LET r == ResultFrom(calls[c], RowUsed(c), LookupUsed(c), now)
       IN  calls' = [calls EXCEPT ![c] =
                        [calls[c] EXCEPT
                             !.pc = "done",
                             !.tMint = IF r.pair # NoPair THEN now ELSE 0,
                             !.result = r]]
    /\ UNCHANGED <<AuthAndStore, concRest>>

\* the caller takes the result
Take(c) ==
    /\ calls[c].pc = "done"
    /\ calls' = [calls EXCEPT ![c] = IdleCall]
    /\ UNCHANGED <<AuthAndStore, concRest>>

\* the provisioning path disables or enables alice, or assigns role admin
\* to her or takes it from her
ConcStoreWrite ==
    /\ \/ /\ \E st \in {StatusEnabled, StatusDisabled} :
                 users' = [users EXCEPT !["alice"] = UserRow("alice", TRUE, st)]
          /\ UNCHANGED userHasRole
       \/ /\ userHasRole' = IF <<"alice", "admin">> \in userHasRole
                            THEN userHasRole \ {<<"alice", "admin">>}
                            ELSE userHasRole \cup {<<"alice", "admin">>}
          /\ UNCHANGED users
    /\ UNCHANGED <<aKey, rKey, roleHasPermission, concRest, calls>>

CallStep == \E c \in Callers : Begin(c) \/ ReadStore(c) \/ Return(c) \/ Take(c)

NextConc == CallStep \/ ConcStoreWrite \/ Tick

SpecConc == InitConc /\ [][NextConc]_vars

----------------------------------------------------------------------------
(* Properties.  While res stands, users and now are the store and the clock *)
(* the call read, so a property of a call is a predicate of res, users, now *)

Present(u) == u \in Usernames /\ users[u].present

\* the call that produced res read the store and the read did not fail
LoginFound ==
    /\ res.op = "Login"
    /\ res.username # ""
    /\ res.password # ""
    /\ Present(res.username)
    /\ ~res.storeFailed

WrongPassword(u, password) == password # "" /\ password # PasswordOf(u)

SameError(r1, r2) == r1.code = r2.code /\ r1.msg = r2.msg

C2_PasswordAndStatusSameError ==
    (LoginFound /\ WrongPassword(res.username, res.password))
    => \A u \in Usernames :
           (Present(u) /\ users[u].Status # StatusEnabled)
           => SameError(res, LoginResult(u, PasswordOf(u), FALSE, now))

\* C3: a Login refused because the username is absent from the store and a
\* Login of an existing username refused for a wrong password get the same
\* authentication error, code and message
C3_NotFoundSameAsWrongPassword ==
    /\ (/\ res.op = "Login"
        /\ res.username # ""
        /\ res.password # ""
        /\ ~Present(res.username)
        /\ ~res.storeFailed)
       => /\ res.code = "Unauthenticated"
          /\ \A u \in Usernames, password \in PasswordInputs :
                 (Present(u) /\ WrongPassword(u, password))
                 => SameError(res, LoginResult(u, password, FALSE, now))
    /\ (LoginFound /\ WrongPassword(res.username, res.password))
       => /\ res.code = "Unauthenticated"
          /\ \A u \in Usernames, password \in PasswordInputs :
                 (~Present(u) /\ password # "")
                 => SameError(res, LoginResult(u, password, FALSE, now))

\* C3 witness: bob is absent and was just refused while alice exists
C3_Witness ==
    /\ res.op = "Login"
    /\ res.username = "bob"
    /\ res.password = "pw-b"
    /\ ~Present("bob")
    /\ Present("alice")
    /\ res.code = "Unauthenticated"

\* the principal a returned pair names
PairUsername == res.pair.Refresh.profile.Username

\* the principal whose row the call read
ReadUsername == IF res.op = "Login" THEN res.username ELSE res.token.profile.Username

\* C4: a token pair is returned only for a principal the call read as
\* enabled, and a call that read any other status returns the authentication
\* error and no token
C4_OnlyEnabledGetTokens ==
    /\ res.code = "OK"
       => /\ res.op \in {"Login", "RefreshToken"}
          /\ PairUsername = ReadUsername
          /\ res.pair.Access.profile.Username = PairUsername
          /\ Present(PairUsername)
          /\ users[PairUsername].Status = StatusEnabled
          /\ res.statusRead = StatusEnabled
    /\ res.statusRead # -1
       => /\ Present(ReadUsername)
          /\ res.statusRead = users[ReadUsername].Status
    /\ res.statusRead \in Statuses \ {StatusEnabled}
       => /\ res.code = "Unauthenticated"
          /\ res.pair = NoPair

\* C4 witness: a refresh token minted while its principal was enabled is
\* presented after the principal was terminated
C4_Witness ==
    /\ res.op = "RefreshToken"
    /\ res.token \in {w.token : w \in wallet}
    /\ res.statusRead = StatusTerminated
    /\ res.code = "Unauthenticated"

\* the spec's validity window of a token: not-before <= now < expiration
InWindow(tok) ==
    /\ ParseRFC3339(tok.nbf) <= now
    /\ now < ParseRFC3339(tok.exp)

\* C5: a refresh token minted by Login or RefreshToken, presented inside its
\* validity window while the store read succeeds and the principal its claims
\* name is enabled, yields a new pair, and no password is supplied or compared
C5_RefreshTokenSuffices ==
    \A w \in wallet :
        (/\ res.op = "RefreshToken"
         /\ w.role = "Refresh"
         /\ res.token = w.token
         /\ InWindow(w.token)
         /\ ~res.storeFailed
         /\ Present(w.token.profile.Username)
         /\ users[w.token.profile.Username].Status = StatusEnabled)
        => /\ res.code = "OK"
           /\ res.pair # NoPair
           /\ res.pair.Refresh.profile.Username = w.token.profile.Username
           /\ res.password = ""
           /\ ~res.pwCompared

\* C5 witness: a refresh token that RefreshToken itself minted is presented
\* later and accepted
C5_Witness ==
    /\ res.op = "RefreshToken"
    /\ res.code = "OK"
    /\ now > 0
    /\ \E w \in wallet :
           /\ w.role = "Refresh"
           /\ w.by = "RefreshToken"
           /\ w.token = res.token
           /\ InWindow(w.token)

\* a clock reading cut to its whole seconds
WholeSeconds(t) == t - (t % TicksPerSecond)

\* C6 (as amended): a pair minted at clock reading t0 has, in both tokens,
\* issued-at = not-before = t0 cut to whole seconds; the access token expires
\* exactly 1 hour and the refresh token exactly 7 days after that instant,
\* whatever the expiration of a presented refresh token was
C6_ExpirationsFromOneReading ==
    res.code = "OK"
    => /\ \A tok \in {res.pair.Access, res.pair.Refresh} :
              /\ ParseRFC3339(tok.iat) = WholeSeconds(now)
              /\ ParseRFC3339(tok.nbf) = WholeSeconds(now)
       /\ ParseRFC3339(res.pair.Access.exp) = WholeSeconds(now) + 3600 * TicksPerSecond
       /\ ParseRFC3339(res.pair.Refresh.exp) = WholeSeconds(now) + 604800 * TicksPerSecond

\* C6 witness: a refresh within a second's fraction, of a token that was
\* minted in an earlier second
C6_Witness ==
    /\ res.op = "RefreshToken"
    /\ res.code = "OK"
    /\ now % TicksPerSecond # 0
    /\ res.token.exp # res.pair.Refresh.exp

\* C6 as stated: the expirations are exactly t0 + 1 hour and t0 + 7 days, and
\* t0 is the issued-at and not-before of both tokens
C6_Original ==
    res.code = "OK"
    => /\ \A tok \in {res.pair.Access, res.pair.Refresh} :
              /\ ParseRFC3339(tok.iat) = now
              /\ ParseRFC3339(tok.nbf) = now
       /\ ParseRFC3339(res.pair.Access.exp) = now + 3600 * TicksPerSecond
       /\ ParseRFC3339(res.pair.Refresh.exp) = now + 604800 * TicksPerSecond

\* C7 as stated: a token presented to RefreshToken when the clock reads its
\* expiration, or later, is refused with the authentication error
C7_ExpiredAtBoundary ==
    (/\ res.op = "RefreshToken"
     /\ res.token.kind = "v4.local"
     /\ now >= ParseRFC3339(res.token.exp)
     /\ ~res.storeFailed)
    => /\ res.code = "Unauthenticated"
       /\ res.pair = NoPair

\* the response to an access token that genToken minted
AccessTokenPresented ==
    /\ res.op = "RefreshToken"
    /\ \E w \in wallet : w.role = "Access" /\ w.token = res.token

\* C8 (as amended): when the access key and the refresh key given to New
\* differ, an access token minted by genToken and presented to RefreshToken
\* yields no pair but the authentication error, and no minted refresh token
\* opens under the access key
C8_CrossKeyRejection ==
    aKey # rKey
    => /\ AccessTokenPresented
          => /\ res.code = "Unauthenticated"
             /\ res.msg = MsgToken
             /\ res.pair = NoPair
       /\ \A w \in wallet :
              /\ w.role = "Refresh" => w.token.key # aKey
              /\ w.role = "Access" => w.token.key # rKey

\* C8 witness: distinct keys, and a still unexpired access token was refused
C8_Witness ==
    /\ aKey # rKey
    /\ AccessTokenPresented
    /\ InWindow(res.token)
    /\ res.code = "Unauthenticated"

\* C8 as stated: an access token presented to RefreshToken never yields a pair
C8_Original ==
    AccessTokenPresented
    => /\ res.code = "Unauthenticated"
       /\ res.pair = NoPair

\* the reasons, other than a failing store, for which a token is refused
RefusalCause(tok) ==
    \/ tok = EmptyToken
    \/ tok.kind # "v4.local"
    \/ tok.key # rKey
    \/ now > ParseRFC3339(tok.exp)
    \/ now < ParseRFC3339(tok.nbf)
    \/ now < ParseRFC3339(tok.iat)
    \/ tok.profile.json # "object"
    \/ ~Present(tok.profile.Username)
    \/ users[tok.profile.Username].Status # StatusEnabled

\* C9: whatever the reason RefreshToken refuses a token for, other than a
\* failing store, the response is the one authentication error: the same
\* code and the same message as every other refusal
C9_OneRefusal ==
    (res.op = "RefreshToken" /\ ~res.storeFailed /\ RefusalCause(res.token))
    => /\ res.code = "Unauthenticated"
       /\ res.msg = MsgToken
       /\ res.pair = NoPair
       /\ \A tok \in TokenInputs :
              RefusalCause(tok) => SameError(res, RefreshTokenResult(tok, FALSE, now))

\* C9 witness: an expired token of a principal that is still enabled was
\* refused, while tokens refused for other reasons are at hand
C9_Witness ==
    /\ res.op = "RefreshToken"
    /\ res.token.kind = "v4.local"
    /\ res.token.key = rKey
    /\ now > ParseRFC3339(res.token.exp)
    /\ Present(res.token.profile.Username)
    /\ users[res.token.profile.Username].Status = StatusEnabled
    /\ res.code = "Unauthenticated"

\* does p occur in the list hs
Occurs(p, hs) == \E i \in 1..Len(hs) : hs[i] = p

\* the entries of ws that do not occur in hs, in the order of ws
NotOccurring(ws, hs) ==
    LET absent(p) == ~Occurs(p, hs) IN SelectSeq(ws, absent)

\* C10: checkMissingPermissions(wanted, having) is the list of the entries of
\* wanted that do not occur in having, in wanted's order, once per occurrence;
\* it is empty when every wanted entry occurs in having
C10_MissingPermissions ==
    permPc = "done"
    => /\ missing = NotOccurring(wanted, having)
       /\ (\A i \in 1..Len(wanted) : Occurs(wanted[i], having)) => missing = <<>>
       /\ (having = <<"x:read">> /\ wanted = <<"x:read", "x:write">>)
          => missing = <<"x:write">>
       /\ (having = <<"x:read", "x:write">> /\ wanted = <<"x:read">>)
          => missing = <<>>

\* C10 witness: a wanted entry that is repeated and missing is reported twice
C10_Witness ==
    /\ permPc = "done"
    /\ having = <<"x:read">>
    /\ wanted = <<"x:write", "x:read", "x:write">>
    /\ missing = <<"x:write", "x:write">>

----------------------------------------------------------------------------
(* Properties of the calls that take the principal from the context.  While *)
(* res stands, userHasRole and roleHasPermission are the rows the call read *)

\* the permissions granted to any role assigned to username
EffectivePermissions(username) ==
    {p \in Perms : \E r \in RoleNames : /\ <<username, r>> \in userHasRole
                                        /\ <<r, p>> \in roleHasPermission}

\* the fault of a role lookup strikes: the query fails, or the iteration
\* reaches the row at which it fails
FaultStrikes(fault, username) ==
    \/ fault.kind = "query"
    \/ fault.kind \in {"scan", "rows"}
           /\ fault.at <= Cardinality(JoinedRoles(username))

CanIAnswered ==
    /\ res.op = "CanI"
    /\ res.wanted # <<>>
    /\ ~FaultStrikes(res.fault, res.claims.Username)

\* the entries of ws that are not in set S, in order
Without(ws, S) == SelectSeq(ws, LAMBDA p : p \notin S)

\* C11: a CanI call with a non-empty list whose role lookup succeeds returns
\* nil exactly when every requested permission is granted to some role of
\* the user; otherwise it returns permission denied, and the names it
\* reports are exactly the requested names that no role grants.
C11_AccessDecision ==
    CanIAnswered =>
        LET eff == EffectivePermissions(res.claims.Username)
            lacking == Without(res.wanted, eff)
        IN  /\ (res.code = "OK") <=> (lacking = <<>>)
            /\ res.code # "OK" =>
                   /\ res.code = "PermissionDenied"
                   /\ res.msg = MsgPermissions
                   /\ res.missed = lacking

\* a user with both roles asks for two permissions and lacks one of them
C11_Witness ==
    /\ CanIAnswered
    /\ res.code = "PermissionDenied"
    /\ Cardinality(JoinedRoles(res.claims.Username)) = 2
    /\ Len(res.wanted) = 2
    /\ Len(res.missed) = 1

\* claims that name username with any id and display name, as a token
\* minted before a change of the principal's row carries them
ClaimsNaming(username) ==
    {[ID |-> i, Username |-> username, DisplayName |-> d] :
         i \in {IdOf(username), "id-old"},
         d \in {DisplayNameOf(username), "old name"}}

\* C12: what CanI answers is decided by the username of the claims and by
\* the role and permission rows at the time of the call: a requested
\* permission that no role of the user grants now is refused, also when an
\* earlier call was granted it; when every requested permission is granted
\* now and the lookup succeeds the call returns nil; and neither the other
\* fields of the claims nor the order in which the store returns the rows
\* change the answer.
C12_DecidedByStoreAtCall ==
    (res.op = "CanI" /\ res.wanted # <<>>) =>
        LET u == res.claims.Username
            eff == EffectivePermissions(u)
            lacking == Without(res.wanted, eff)
        IN  /\ lacking # <<>> => res.code # "OK"
            /\ (lacking # <<>> /\ ~FaultStrikes(res.fault, u))
                   => res.code = "PermissionDenied"
            /\ (lacking = <<>> /\ ~FaultStrikes(res.fault, u))
                   => res.code = "OK"
            /\ \A c \in ClaimsNaming(u), rowOrder \in Orders, arrOrder \in Orders :
                   LET r == CanIResult(c, res.wanted, rowOrder, arrOrder, res.fault)
                   IN  SameError(res, r) /\ r.missed = res.missed

\* a permission the caller was granted by an earlier call is refused by
\* this call, the grant or the assignment having been removed in between
C12_Witness ==
    /\ res.op = "CanI"
    /\ res.code = "PermissionDenied"
    /\ res.claims.Username = Caller
    /\ \E i \in 1..Len(res.wanted) :
           /\ res.wanted[i] \in seenGranted
           /\ res.wanted[i] \notin EffectivePermissions(Caller)

\* the set of the entries of a list
Entries(s) == {s[i] : i \in 1..Len(s)}

\* the number of role_has_permission rows of the roles assigned to username
GrantRows(username) ==
    Cardinality({g \in roleHasPermission : <<username, g[1]>> \in userHasRole})

CanIResolved == res.op = "CanI" /\ res.code \in {"OK", "PermissionDenied"}

\* C13: the names in the list roleToPermissions returns for a user's roles
\* are the union of the permissions of those roles, and the list is the
\* concatenation of the roles' lists: a name occurs in it once for each
\* role that grants it.
C13_ConcatenatedPermissions ==
    CanIResolved =>
        /\ Entries(res.have) = EffectivePermissions(res.claims.Username)
        /\ Len(res.have) = GrantRows(res.claims.Username)

\* roles admin:[x:read] and editor:[x:read, x:write] of one user resolve
\* to a list of three entries over the two names
C13_Witness ==
    /\ CanIResolved
    /\ <<res.claims.Username, "admin">> \in userHasRole
    /\ <<res.claims.Username, "editor">> \in userHasRole
    /\ roleHasPermission =
           {<<"admin", "x:read">>, <<"editor", "x:read">>, <<"editor", "x:write">>}
    /\ Len(res.have) = 3
    /\ Entries(res.have) = {"x:read", "x:write"}

\* C13 as stated: each name occurs once in what roleToPermissions returns
C13_Original ==
    CanIResolved =>
        /\ Entries(res.have) = EffectivePermissions(res.claims.Username)
        /\ \A i, j \in 1..Len(res.have) : res.have[i] = res.have[j] => i = j

\* the request context names a principal that has no role assigned
NoRolesCall ==
    /\ res.op \in {"CanI", "ListMyRoles"}
    /\ res.claims.Username \in Usernames
    /\ \A r \in RoleNames : <<res.claims.Username, r>> \notin userHasRole

C15_EmptyListInvalidArgument ==
    (res.op = "CanI" /\ res.wanted = <<>>) =>
        /\ res.code = "InvalidArgument"
        /\ res.reads = 0

\* a role lookup of this call is struck by a failure or a cancellation
LookupStruck ==
    /\ res.op \in {"CanI", "ListMyRoles"}
    /\ res.op = "CanI" => res.wanted # <<>>
    /\ FaultStrikes(res.fault, res.claims.Username)

\* C16: a role lookup that fails or is cancelled, at the query or after any
\* number of rows, yields an error and no role list; CanI and ListMyRoles
\* return that error, never nil, permission denied or a list computed from
\* the rows read so far.
C16_NoTruncatedRoles ==
    LookupStruck =>
        /\ res.code = "StoreError"
        /\ res.msg \in {MsgQuery, MsgScan, MsgRows}
        /\ res.roles = <<>>
        /\ res.have = <<>>
        /\ res.missed = <<>>

\* the iteration over the two roles of a user is cut after the first row
C16_Witness ==
    /\ LookupStruck
    /\ res.fault = [kind |-> "rows", at |-> 1]
    /\ Cardinality(JoinedRoles(res.claims.Username)) = 2
    /\ res.code = "StoreError"

\* C17: Profile returns the principal its claims name, or an error; when
\* that principal is not in the store (also without claims, the username
\* being empty) and the store read succeeds, the error is the authentication
\* error that Login and RefreshToken return.
C17_ProfileAuthenticationError ==
    (res.op = "Profile" /\ res.fault = NoFault) =>
        IF Present(res.claims.Username)
        THEN res.code = "OK" /\ res.user = users[res.claims.Username]
        ELSE res.code = "Unauthenticated"

\* the fields of a Login request that are empty
EmptyFields(r) ==
    (IF r.username = "" THEN {"username"} ELSE {})
        \cup (IF r.password = "" THEN {"password"} ELSE {})

\* C18: a Login call with an empty username or password returns invalid
\* argument with exactly one violation for each empty field, having read
\* no store row, compared no password and minted no token; a Login call
\* with both fields filled never returns the validation error.
C18_LoginValidation ==
    res.op = "Login" =>
        IF EmptyFields(res) # {}
        THEN /\ res.code = "InvalidArgument"
             /\ Entries(res.violations) = EmptyFields(res)
             /\ Len(res.violations) = Cardinality(EmptyFields(res))
             /\ res.reads = 0
             /\ res.statusRead = -1
             /\ ~res.storeFailed
             /\ ~res.pwCompared
             /\ res.pair = NoPair
        ELSE /\ res.code # "InvalidArgument"
             /\ res.violations = <<>>
             /\ res.reads = 1

\* both fields empty: two violations, and the store is not reached
C18_Witness ==
    /\ res.op = "Login"
    /\ res.username = ""
    /\ res.password = ""
    /\ res.violations = <<"username", "password">>
    /\ res.reads = 0

\* C19: a store failure other than not-found is logged and reaches the
\* caller as an opaque internal error, never as the store's own error.
C19_StoreFailuresOpaque ==
    res.storeFailed =>
        /\ res.logged
        /\ res.code = "Internal"
        /\ res.msg \notin {MsgStore, MsgQuery, MsgScan, MsgRows}

\* C20: nothing retires a refresh token but its expiration and the state of
\* its principal: a refresh token that a RefreshToken call has already
\* accepted is accepted again whenever it is presented inside its validity
\* window while its principal is enabled and the store read succeeds, and
\* when it is refused it has expired or its principal is absent or not
\* enabled.
C20_RefreshConsumesNothing ==
    \A w \in wallet :
        (/\ res.op = "RefreshToken"
         /\ res.token = w.token
         /\ w.role = "Refresh"
         /\ w.used
         /\ ~res.storeFailed)
        => LET u == w.token.profile.Username
           IN  /\ (InWindow(w.token) /\ Present(u)
                      /\ users[u].Status = StatusEnabled) => res.code = "OK"
               /\ res.code # "OK" =>
                      \/ now >= ParseRFC3339(w.token.exp)
                      \/ ~Present(u)
                      \/ users[u].Status # StatusEnabled

\* a refresh token is accepted a second time, later than the first
C20_Witness ==
    /\ res.op = "RefreshToken"
    /\ res.code = "OK"
    /\ \E w \in wallet :
           /\ w.role = "Refresh"
           /\ w.used
           /\ w.token = res.token
           /\ now > ParseRFC3339(w.token.iat) + TicksPerSecond

----------------------------------------------------------------------------
(* Properties of the status decoders *)

\* the decoder was given one of the four names: between quotes to
\* UnmarshalJSON, as a string or []byte to Scan
NameGiven ==
    IF dec.op = "UnmarshalJSON"
    THEN \E name \in StatusNames : dec.json = Quoted(name)
    ELSE dec.src.type \in {"string", "bytes"} /\ dec.src.text \in StatusNames

\* the decoder was given nothing to decode: JSON null, or a nil column
NothingGiven ==
    IF dec.op = "UnmarshalJSON" THEN dec.json = JSONNull
    ELSE dec.src.type = "nil"

\* C21: a status decoder accepts only the four names; every other input, an
\* unknown name or an integer, is rejected with an error and leaves the
\* status as it was, so a decoded status is one of the four declared values.
C21_DecodeFailsClosed ==
    dec.pc = "done" =>
        /\ dec.out \in Statuses
        /\ (~NameGiven /\ ~NothingGiven) =>
               (dec.err = "invalid status" /\ dec.out = dec.s)
        /\ NothingGiven => dec.out = dec.s

----------------------------------------------------------------------------
(* Properties of concurrent calls *)

\* the result of a finished call is the result of its handler on its own
\* request and on what the call itself read from the store and the clock
OwnResult(c) ==
    calls[c].pc = "done" =>
        calls[c].result =
            ResultFrom(calls[c], calls[c].row, calls[c].lookup, calls[c].tMint)

\* a call under way can take its next step, whatever the other call does
NotWaiting(c) ==
    /\ calls[c].pc = "read" => ENABLED (ReadStore(c) \/ Return(c))
    /\ calls[c].pc = "mint" => ENABLED Return(c)

C23_ClaimsFromStore ==
    (res.op = "RefreshToken" /\ res.code = "OK") =>
        LET u == users[res.token.profile.Username]
        IN  \A tok \in {res.pair.Access, res.pair.Refresh} :
                /\ tok.profile = MarshalClaims(toClaims(u))
                /\ tok.sub = u.Username

\* the presented token carries the old id and display name, the new pair
\* the changed ones
C23_Witness ==
    /\ res.op = "RefreshToken"
    /\ res.code = "OK"
    /\ res.pair.Refresh.profile.Username = res.token.profile.Username
    /\ res.pair.Refresh.profile.DisplayName # res.token.profile.DisplayName
    /\ res.pair.Access.profile.ID # res.token.profile.ID

\* C24: Profile, CanI and ListMyRoles do not consult the status of the
\* principal: Profile returns the stored row of a present principal under
\* every status, CanI decides by the role and permission rows alone and
\* ListMyRoles lists the assigned roles, none of them having read a status;
\* a principal disabled after its claims were obtained is answered as
\* before.
C24_StatusNotConsulted ==
    LET u == res.claims.Username
    IN  /\ res.op \in {"Profile", "CanI", "ListMyRoles"} => res.statusRead = -1
        /\ (res.op = "Profile" /\ res.fault = NoFault /\ Present(u)) =>
               /\ res.code = "OK"
               /\ res.user = users[u]
               /\ \A st \in Statuses :
                      SameError(res, ProfileFrom([err |-> "nil",
                                                  user |-> [users[u] EXCEPT
                                                                !.Status = st]]))
        /\ (res.op = "CanI" /\ res.wanted # <<>> /\ ~FaultStrikes(res.fault, u)) =>
               ((res.code = "OK")
                    <=> (Without(res.wanted, EffectivePermissions(u)) = <<>>))
        /\ (res.op = "ListMyRoles" /\ ~FaultStrikes(res.fault, u)) =>
               /\ res.code = "OK"
               /\ {res.roles[i].Name : i \in 1..Len(res.roles)} = JoinedRoles(u)

\* the caller was granted a permission before; its principal is disabled
\* now, and CanI grants the permission again
C24_Witness ==
    /\ res.op = "CanI"
    /\ res.code = "OK"
    /\ res.claims.Username = Caller
    /\ users[Caller].Status = StatusDisabled
    /\ \E i \in 1..Len(res.wanted) : res.wanted[i] \in seenGranted

=============================================================================
